---- MODULE Spec2Model ----
(***************************************************************************)
(* Transaction query functions of lab1/script.js.                          *)
(*                                                                         *)
(* A collection is a sequence of Transaction records.  Strings that the    *)
(* code only tests with === (ids, types, merchants, descriptions) are TLA+ *)
(* strings.  Strings that the code orders with < and <=, parses with       *)
(* new Date(...) or produces by number-to-property-key conversion are       *)
(* sequences of UTF-16 code units ("2019-01-05" is                          *)
(* <<50,48,49,57,45,48,49,45,48,53>>), so that ordering, parsing and        *)
(* formatting are computed as JavaScript computes them.                     *)
(*                                                                         *)
(* A call's return value is a tagged JavaScript value [tag, val].          *)
(***************************************************************************)
EXTENDS Integers, Sequences, FiniteSets

VARIABLES
    txs,    \* the collection handed to the query functions
    tz,     \* the host's local time zone: "west" of UTC (negative offset) or "east" (offset >= 0)
    op,     \* name of the last function called ("none" before the first call)
    args,   \* its arguments besides the collection
    res     \* its return value

vars == <<txs, tz, op, args, res>>

\* ------------------------------------------------------------------ bounds

\* longest generated collection
MaxLen == 3

\* ------------------------------------------------------- JavaScript values

JsNumber(n) == [tag |-> "number", val |-> n]
JsString(s) == [tag |-> "string", val |-> s]
JsArray(a) == [tag |-> "array", val |-> a]
JsObject(r) == [tag |-> "object", val |-> r]
JsNull == [tag |-> "null", val |-> "null"]
JsUndefined == [tag |-> "undefined", val |-> "undefined"]

\* a === b
StrictEquals(a, b) ==
    /\ a.tag = b.tag
    /\ a.val = b.val

\* code unit of decimal digit d
Digit(d) == 48 + d

\* two-digit, zero-padded decimal numeral
Pad2(n) == <<Digit(n \div 10), Digit(n % 10)>>

\* the literal "YYYY-MM-DD"
IsoDate(y, m, d) ==
    <<Digit(y \div 1000), Digit((y \div 100) % 10), Digit((y \div 10) % 10), Digit(y % 10)>>
        \o <<45>> \o Pad2(m) \o <<45>> \o Pad2(d)

\* a < b on strings: lexicographic on code units
RECURSIVE StrLess(_, _)
StrLess(a, b) ==
    IF b = <<>> THEN FALSE
    ELSE IF a = <<>> THEN TRUE
    ELSE IF Head(a) # Head(b) THEN Head(a) < Head(b)
    ELSE StrLess(Tail(a), Tail(b))

\* a <= b on strings
StrLessEq(a, b) == a = b \/ StrLess(a, b)

\* value of the decimal numeral s
RECURSIVE ToNumber(_)
ToNumber(s) ==
    IF s = <<>> THEN 0
    ELSE 10 * ToNumber(SubSeq(s, 1, Len(s) - 1)) + (s[Len(s)] - 48)

\* Number-to-string conversion of a non-negative integer (property keys)
RECURSIVE ToString(_)
ToString(n) ==
    IF n < 10 THEN <<Digit(n)>>
    ELSE ToString(n \div 10) \o <<Digit(n % 10)>>

\* ------------------------------------------------------------------- Date

IsLeapYear(y) == (y % 4 = 0 /\ y % 100 # 0) \/ y % 400 = 0

DaysInMonth(y, m) ==
    IF m = 2 THEN (IF IsLeapYear(y) THEN 29 ELSE 28)
    ELSE IF m \in {4, 6, 9, 11} THEN 30
    ELSE 31

\* new Date("YYYY-MM-DD"): a date-only string denotes midnight UTC of that day
DateParse(s) ==
    [year |-> ToNumber(SubSeq(s, 1, 4)),
     month |-> ToNumber(SubSeq(s, 6, 7)),
     day |-> ToNumber(SubSeq(s, 9, 10))]

\* the calendar day before d
PreviousDay(d) ==
    IF d.day > 1 THEN [d EXCEPT !.day = d.day - 1]
    ELSE IF d.month > 1
        THEN [year |-> d.year, month |-> d.month - 1, day |-> DaysInMonth(d.year, d.month - 1)]
    ELSE [year |-> d.year - 1, month |-> 12, day |-> 31]

\* The local calendar date of new Date(s): getFullYear, getMonth and getDate
\* read the instant in the host's local time.  Midnight UTC is the same
\* calendar day at any offset >= 0 and the previous day at any offset < 0.
LocalDate(s, zone) ==
    IF zone = "west" THEN PreviousDay(DateParse(s)) ELSE DateParse(s)

getFullYear(s, zone) == LocalDate(s, zone).year
\* 0..11
getMonth(s, zone) == LocalDate(s, zone).month - 1
getDate(s, zone) == LocalDate(s, zone).day

\* ------------------------------------------------------- month with most

\* CountMonth keying the record under getMonth() itself, 0..11
CountMonth_ZeroBased(counts, t, zone) ==
    LET key == ToString(getMonth(t.transaction_date, zone))
        old == IF key \in DOMAIN counts THEN counts[key] ELSE 0
    IN  [k \in DOMAIN counts \cup {key} |-> IF k = key THEN old + 1 ELSE counts[k]]

\* counts[month] = (counts[month] || 0) + 1, the number month converted to a property key
CountMonth(counts, t, zone) ==
    LET month == getMonth(t.transaction_date, zone) + 1
        key == ToString(month)
        old == IF key \in DOMAIN counts THEN counts[key] ELSE 0
    IN  [k \in DOMAIN counts \cup {key} |-> IF k = key THEN old + 1 ELSE counts[k]]

\* transactions.forEach(...) over counts = {}
RECURSIVE MonthCounts(_, _)
MonthCounts(transactions, zone) ==
    IF transactions = <<>> THEN <<>>
    ELSE CountMonth(MonthCounts(SubSeq(transactions, 1, Len(transactions) - 1), zone),
                    transactions[Len(transactions)], zone)

\* Object.keys(counts): integer-like keys come in ascending numeric order,
\* whatever the order of their creation
RECURSIVE ObjectKeys(_)
ObjectKeys(counts) ==
    IF DOMAIN counts = {} THEN <<>>
    ELSE LET k == CHOOSE x \in DOMAIN counts :
                      \A y \in DOMAIN counts : ToNumber(x) <= ToNumber(y)
         IN  <<k>> \o ObjectKeys([x \in DOMAIN counts \ {k} |-> counts[x]])

\* MaxKeyReducer keeping the accumulated key on a tie: counts[a] >= counts[b] ? a : b
MaxKeyReducer_KeepOnTie(counts, a, b) == IF counts[a] >= counts[b] THEN a ELSE b

\* (a, b) => counts[a] > counts[b] ? a : b
MaxKeyReducer(counts, a, b) == IF counts[a] > counts[b] THEN a ELSE b

\* keys.reduce(callback) without an initial value, on a non-empty array
RECURSIVE ReduceKeys(_, _)
ReduceKeys(counts, keys) ==
    IF Len(keys) = 1 THEN keys[1]
    ELSE MaxKeyReducer(counts, ReduceKeys(counts, SubSeq(keys, 1, Len(keys) - 1)), keys[Len(keys)])

findMostTransactionsMonth(transactions, zone) ==
    IF Len(transactions) = 0 THEN JsNull
    ELSE LET counts == MonthCounts(transactions, zone)
         IN  JsString(ReduceKeys(counts, ObjectKeys(counts)))

\* ------------------------------------------------------- Array built-ins

\* arr.filter(callback), keep being the indices at which the callback returns true:
\* the elements kept are appended in index order to a new array
ArrayFilter(arr, keep) ==
    LET out[i \in 0..Len(arr)] ==
            IF i = 0 THEN <<>>
            ELSE IF i \in keep THEN Append(out[i - 1], arr[i])
            ELSE out[i - 1]
    IN  out[Len(arr)]

\* arr.find(callback), hits being the indices at which the callback returns true:
\* the element at the first such index, or undefined
ArrayFind(arr, hits) ==
    LET first[i \in 1..(Len(arr) + 1)] ==
            IF i > Len(arr) THEN JsUndefined
            ELSE IF i \in hits THEN JsObject(arr[i])
            ELSE first[i + 1]
    IN  first[1]

\* arr.reduce((sum, t) => sum + t.transaction_amount, 0)
SumAmounts(arr) ==
    LET sum[i \in 0..Len(arr)] ==
            IF i = 0 THEN 0 ELSE sum[i - 1] + arr[i].transaction_amount
    IN  sum[Len(arr)]

\* Array.from(new Set(values)): each distinct value once, in order of first occurrence
ArrayFromSet(values) ==
    ArrayFilter(values, {i \in DOMAIN values : \A j \in 1..(i - 1) : values[j] # values[i]})

\* a / b on numbers whose quotient the model keeps exact: an integer when b
\* divides a, otherwise the fraction in lowest terms
Divide(a, b) ==
    IF a % b = 0 THEN a \div b
    ELSE LET g == CHOOSE d \in 1..b :
                      /\ a % d = 0 /\ b % d = 0
                      /\ \A e \in (d + 1)..b : ~(a % e = 0 /\ b % e = 0)
         IN  [num |-> a \div g, den |-> b \div g]

\* -------------------------------------------------------- query functions

getUniqueTransactionTypes(transactions) ==
    JsArray(ArrayFromSet([i \in DOMAIN transactions |-> transactions[i].transaction_type]))

\* calculateTotalAmount leaving the first record out of the sum
calculateTotalAmount_SkipFirst(transactions) ==
    JsNumber(SumAmounts(IF transactions = <<>> THEN <<>> ELSE Tail(transactions)))

calculateTotalAmount(transactions) == JsNumber(SumAmounts(transactions))

\* the filter callback of calculateTotalAmountByDate
MatchesDate(t, year, month, day, zone) ==
    LET matchesYear ==
            year.tag = "undefined" \/ StrictEquals(JsNumber(getFullYear(t.transaction_date, zone)), year)
        matchesMonth ==
            month.tag = "undefined" \/ StrictEquals(JsNumber(getMonth(t.transaction_date, zone) + 1), month)
        matchesDay ==
            day.tag = "undefined" \/ StrictEquals(JsNumber(getDate(t.transaction_date, zone)), day)
    IN  matchesYear /\ matchesMonth /\ matchesDay

calculateTotalAmountByDate(transactions, year, month, day, zone) ==
    JsNumber(SumAmounts(ArrayFilter(transactions,
        {i \in DOMAIN transactions : MatchesDate(transactions[i], year, month, day, zone)})))

\* getTransactionByType testing card_type instead of transaction_type
getTransactionByType_CardType(transactions, type) ==
    JsArray(ArrayFilter(transactions,
        {i \in DOMAIN transactions : transactions[i].card_type = type}))

getTransactionByType(transactions, type) ==
    JsArray(ArrayFilter(transactions,
        {i \in DOMAIN transactions : transactions[i].transaction_type = type}))

\* getTransactionsInDateRange with the end bound excluded
getTransactionsInDateRange_EndExcluded(transactions, startDate, endDate) ==
    JsArray(ArrayFilter(transactions,
        {i \in DOMAIN transactions :
            /\ StrLessEq(startDate, transactions[i].transaction_date)
            /\ StrLess(transactions[i].transaction_date, endDate)}))

getTransactionsInDateRange(transactions, startDate, endDate) ==
    JsArray(ArrayFilter(transactions,
        {i \in DOMAIN transactions :
            /\ StrLessEq(startDate, transactions[i].transaction_date)
            /\ StrLessEq(transactions[i].transaction_date, endDate)}))

getTransactionsByMerchant(transactions, merchantName) ==
    JsArray(ArrayFilter(transactions,
        {i \in DOMAIN transactions : transactions[i].merchant_name = merchantName}))

calculateAverageTransactionAmount(transactions) ==
    IF Len(transactions) = 0 THEN JsNumber(0)
    ELSE JsNumber(Divide(calculateTotalAmount(transactions).val, Len(transactions)))

getTransactionsByAmountRange(transactions, minAmount, maxAmount) ==
    JsArray(ArrayFilter(transactions,
        {i \in DOMAIN transactions :
            /\ transactions[i].transaction_amount >= minAmount
            /\ transactions[i].transaction_amount <= maxAmount}))

calculateTotalDebitAmount(transactions) ==
    JsNumber(SumAmounts(ArrayFilter(transactions,
        {i \in DOMAIN transactions : transactions[i].transaction_type = "debit"})))

findMostDebitTransactionMonth(transactions, zone) ==
    LET debitTransactions == ArrayFilter(transactions,
            {i \in DOMAIN transactions : transactions[i].transaction_type = "debit"})
    IN  findMostTransactionsMonth(debitTransactions, zone)

\* mostTransactionTypes answering debit on a tie: debitCount >= creditCount
mostTransactionTypes_DebitOnTie(transactions) ==
    LET debitCount == Len(ArrayFilter(transactions,
            {i \in DOMAIN transactions : transactions[i].transaction_type = "debit"}))
        creditCount == Len(ArrayFilter(transactions,
            {i \in DOMAIN transactions : transactions[i].transaction_type = "credit"}))
    IN  IF debitCount >= creditCount THEN JsString("debit")
        ELSE IF creditCount > debitCount THEN JsString("credit")
        ELSE JsString("equal")

mostTransactionTypes(transactions) ==
    LET debitCount == Len(ArrayFilter(transactions,
            {i \in DOMAIN transactions : transactions[i].transaction_type = "debit"}))
        creditCount == Len(ArrayFilter(transactions,
            {i \in DOMAIN transactions : transactions[i].transaction_type = "credit"}))
    IN  IF debitCount > creditCount THEN JsString("debit")
        ELSE IF creditCount > debitCount THEN JsString("credit")
        ELSE JsString("equal")

getTransactionsBeforeDate(transactions, date) ==
    JsArray(ArrayFilter(transactions,
        {i \in DOMAIN transactions : StrLess(transactions[i].transaction_date, date)}))

\* findTransactionById returning the last record with the id
findTransactionById_LastMatch(transactions, id) ==
    LET hits == {i \in DOMAIN transactions : transactions[i].transaction_id = id}
    IN  IF hits = {} THEN JsUndefined
        ELSE JsObject(transactions[CHOOSE i \in hits : \A j \in hits : j <= i])

findTransactionById(transactions, id) ==
    ArrayFind(transactions, {i \in DOMAIN transactions : transactions[i].transaction_id = id})

mapTransactionDescriptions(transactions) ==
    JsArray([i \in DOMAIN transactions |-> transactions[i].transaction_description])

\* ------------------------------------------------------------ collections

\* the sample dataset
transactions ==
    << [transaction_id |-> "1", transaction_date |-> IsoDate(2019, 1, 1),
        transaction_amount |-> 100, transaction_type |-> "debit",
        transaction_description |-> "Payment for groceries",
        merchant_name |-> "SuperMart", card_type |-> "debit"],
       [transaction_id |-> "2", transaction_date |-> IsoDate(2019, 1, 5),
        transaction_amount |-> 150, transaction_type |-> "credit",
        transaction_description |-> "Refund for returned item",
        merchant_name |-> "SuperMart", card_type |-> "credit"],
       [transaction_id |-> "3", transaction_date |-> IsoDate(2019, 2, 10),
        transaction_amount |-> 50, transaction_type |-> "debit",
        transaction_description |-> "Dinner with friends",
        merchant_name |-> "RestaurantABC", card_type |-> "debit"],
       [transaction_id |-> "4", transaction_date |-> IsoDate(2019, 2, 15),
        transaction_amount |-> 200, transaction_type |-> "debit",
        transaction_description |-> "Electronics purchase",
        merchant_name |-> "TechStore", card_type |-> "credit"],
       [transaction_id |-> "5", transaction_date |-> IsoDate(2019, 3, 20),
        transaction_amount |-> 80, transaction_type |-> "debit",
        transaction_description |-> "Clothing shopping",
        merchant_name |-> "FashionOutlet", card_type |-> "credit"] >>

\* a well-formed Transaction with the given id, date, amount and type
Transaction(id, date, amount, type) ==
    [transaction_id |-> id, transaction_date |-> date,
     transaction_amount |-> amount, transaction_type |-> type,
     transaction_description |-> "Payment", merchant_name |-> "SuperMart",
     card_type |-> "debit"]

\* all sequences over S of length at most n
SeqsUpTo(S, n) == UNION {[1..k -> S] : k \in 0..n}

TimeZones == {"west", "east"}

\* well-formed dates the generated collections and the date arguments draw from
Dates ==
    {IsoDate(2019, 1, 1), IsoDate(2019, 1, 5), IsoDate(2019, 2, 10),
     IsoDate(2019, 3, 1), IsoDate(2019, 10, 15), IsoDate(2019, 12, 31)}

\* collections whose records differ in date and type
MonthCollections ==
    SeqsUpTo({Transaction("1", d, 50, ty) : d \in Dates, ty \in {"debit", "credit"}}, MaxLen)

\* collections whose records differ in type and amount
TypeCollections ==
    SeqsUpTo({Transaction("1", IsoDate(2019, 1, 5), a, ty) :
                  a \in {0, 50, 100}, ty \in {"debit", "credit", "transfer"}}, MaxLen)

\* collections whose records differ in id (not necessarily unique) and amount
LookupCollections ==
    SeqsUpTo({Transaction(id, IsoDate(2019, 1, 5), a, "debit") :
                  id \in {"1", "2", "3"}, a \in {50, 100}}, MaxLen)

\* collections whose records differ in date and id
RangeCollections ==
    SeqsUpTo({Transaction(id, d, 50, "debit") :
                  d \in {IsoDate(2019, 1, 5), IsoDate(2019, 2, 10), IsoDate(2019, 10, 15)},
                  id \in {"1", "2"}}, MaxLen)

\* the sample dataset and its sub-collections
SampleCollections ==
    {ArrayFilter(transactions, keep) : keep \in SUBSET DOMAIN transactions}

\* --------------------------------------------------------------- arguments

TypeArgs == {"debit", "credit", "transfer", "refund"}
IdArgs == {"1", "2", "3", "4", "5", "9"}
MerchantArgs == {"SuperMart", "TechStore", "supermart"}
AmountArgs == {0, 50, 100, 200}
DateArgs ==
    {IsoDate(2019, 1, 1), IsoDate(2019, 1, 5), IsoDate(2019, 1, 31),
     IsoDate(2019, 2, 10), IsoDate(2019, 10, 15)}
YearArgs == {JsUndefined, JsNumber(2018), JsNumber(2019)}
MonthArgs == {JsUndefined} \cup {JsNumber(m) : m \in 1..12}
DayArgs == {JsUndefined, JsNumber(1), JsNumber(5), JsNumber(31)}

\* ------------------------------------------------------------------- calls

\* a call that reverses the collection in place, as transactions.reverse() would
Call_ReverseInPlace(name, arguments, result) ==
    /\ op' = name
    /\ args' = arguments
    /\ res' = result
    /\ txs' = [i \in DOMAIN txs |-> txs[Len(txs) + 1 - i]]
    /\ UNCHANGED tz

\* a call of a query function: it reads the collection and returns a value
Call(name, arguments, result) ==
    /\ op' = name
    /\ args' = arguments
    /\ res' = result
    /\ UNCHANGED <<txs, tz>>

CallGetUniqueTransactionTypes ==
    Call("getUniqueTransactionTypes", <<>>, getUniqueTransactionTypes(txs))

CallCalculateTotalAmount ==
    Call("calculateTotalAmount", <<>>, calculateTotalAmount(txs))

CallCalculateTotalAmountByDate ==
    \E year \in YearArgs, month \in MonthArgs, day \in DayArgs :
        /\ (year.tag = "undefined" => month.tag = "undefined")
        /\ (month.tag = "undefined" => day.tag = "undefined")
        /\ Call("calculateTotalAmountByDate", <<year, month, day>>,
                calculateTotalAmountByDate(txs, year, month, day, tz))

CallGetTransactionByType ==
    \E type \in TypeArgs :
        Call("getTransactionByType", <<type>>, getTransactionByType(txs, type))

CallGetTransactionsInDateRange ==
    \E startDate \in DateArgs, endDate \in DateArgs :
        Call("getTransactionsInDateRange", <<startDate, endDate>>,
             getTransactionsInDateRange(txs, startDate, endDate))

CallGetTransactionsByMerchant ==
    \E merchantName \in MerchantArgs :
        Call("getTransactionsByMerchant", <<merchantName>>,
             getTransactionsByMerchant(txs, merchantName))

CallCalculateAverageTransactionAmount ==
    Call("calculateAverageTransactionAmount", <<>>, calculateAverageTransactionAmount(txs))

CallGetTransactionsByAmountRange ==
    \E minAmount \in AmountArgs, maxAmount \in AmountArgs :
        Call("getTransactionsByAmountRange", <<minAmount, maxAmount>>,
             getTransactionsByAmountRange(txs, minAmount, maxAmount))

CallCalculateTotalDebitAmount ==
    Call("calculateTotalDebitAmount", <<>>, calculateTotalDebitAmount(txs))

CallFindMostTransactionsMonth ==
    Call("findMostTransactionsMonth", <<>>, findMostTransactionsMonth(txs, tz))

CallFindMostDebitTransactionMonth ==
    Call("findMostDebitTransactionMonth", <<>>, findMostDebitTransactionMonth(txs, tz))

CallMostTransactionTypes ==
    Call("mostTransactionTypes", <<>>, mostTransactionTypes(txs))

CallGetTransactionsBeforeDate ==
    \E date \in DateArgs :
        Call("getTransactionsBeforeDate", <<date>>, getTransactionsBeforeDate(txs, date))

CallFindTransactionById ==
    \E id \in IdArgs :
        Call("findTransactionById", <<id>>, findTransactionById(txs, id))

CallMapTransactionDescriptions ==
    Call("mapTransactionDescriptions", <<>>, mapTransactionDescriptions(txs))

\* ---------------------------------------------------------- specifications

InitOn(collections) ==
    /\ txs \in collections
    /\ tz \in TimeZones
    /\ op = "none"
    /\ args = <<>>
    /\ res = JsUndefined

\* the sample dataset (and its sub-collections) under every query function
Init == InitOn(SampleCollections)

Next ==
    \/ CallGetUniqueTransactionTypes
    \/ CallCalculateTotalAmount
    \/ CallCalculateTotalAmountByDate
    \/ CallGetTransactionByType
    \/ CallGetTransactionsInDateRange
    \/ CallGetTransactionsByMerchant
    \/ CallCalculateAverageTransactionAmount
    \/ CallGetTransactionsByAmountRange
    \/ CallCalculateTotalDebitAmount
    \/ CallFindMostTransactionsMonth
    \/ CallFindMostDebitTransactionMonth
    \/ CallMostTransactionTypes
    \/ CallGetTransactionsBeforeDate
    \/ CallFindTransactionById
    \/ CallMapTransactionDescriptions

Spec == Init /\ [][Next]_vars

\* month-mode functions over generated dates
InitMonth == InitOn(MonthCollections)
NextMonth ==
    \/ CallFindMostTransactionsMonth
    \/ CallFindMostDebitTransactionMonth
SpecMonth == InitMonth /\ [][NextMonth]_vars

\* type and amount functions over generated types and amounts
InitType == InitOn(TypeCollections)
NextType ==
    \/ CallGetUniqueTransactionTypes
    \/ CallCalculateTotalAmount
    \/ CallGetTransactionByType
    \/ CallCalculateAverageTransactionAmount
    \/ CallCalculateTotalDebitAmount
    \/ CallMostTransactionTypes
SpecType == InitType /\ [][NextType]_vars

\* lookups over generated ids
InitLookup == InitOn(LookupCollections)
NextLookup ==
    \/ CallFindTransactionById
    \/ CallGetTransactionsByMerchant
    \/ CallMapTransactionDescriptions
SpecLookup == InitLookup /\ [][NextLookup]_vars

\* date filters over generated dates
InitRange == InitOn(RangeCollections)
NextRange ==
    \/ CallGetTransactionsInDateRange
    \/ CallGetTransactionsBeforeDate
SpecRange == InitRange /\ [][NextRange]_vars

\* ------------------------------------------------------------ properties

\* the calendar month written in a record's transaction_date
CalendarMonth(t) == DateParse(t.transaction_date).month

\* the number of records of arr whose transaction_date falls in month m
RecordsInMonth(arr, m) == Cardinality({i \in DOMAIN arr : CalendarMonth(arr[i]) = m})

\* the month under which findMostTransactionsMonth counts a record
KeyedMonth(t) == getMonth(t.transaction_date, tz) + 1

\* the number of records of arr counted under month m
RecordsKeyed(arr, m) == Cardinality({i \in DOMAIN arr : KeyedMonth(arr[i]) = m})

\* the months with the highest count
TiedMonths(arr) ==
    LET count == [m \in 1..12 |-> RecordsKeyed(arr, m)]
    IN  {m \in 1..12 : count[m] > 0 /\ \A n \in 1..12 : count[m] >= count[n]}

\* the month a returned value denotes, be it a number or a numeral
MonthValue(v) == IF v.tag = "string" THEN ToNumber(v.val) ELSE v.val

\* the k-th smallest index of the index set I
KthIndex(I, k) == CHOOSE i \in I : Cardinality({j \in I : j <= i}) = k

\* the elements of arr at the indices I, in index order
Selection(arr, I) == [k \in 1..Cardinality(I) |-> arr[KthIndex(I, k)]]

\* the ids of the records of arr, in order
Ids(arr) == [i \in DOMAIN arr |-> arr[i].transaction_id]

\* a <= b as calendar dates
CalendarLessEq(a, b) ==
    LET x == DateParse(a)
        y == DateParse(b)
    IN  \/ x.year < y.year
        \/ x.year = y.year /\ x.month < y.month
        \/ x.year = y.year /\ x.month = y.month /\ x.day <= y.day

\* C1: findMostTransactionsMonth returns null for the empty collection and
\* otherwise a month of 1..12 in which at least as many records' transaction_date
\* fall as in every other month.
C1_MostFrequentMonth ==
    op = "findMostTransactionsMonth" =>
        IF Len(txs) = 0 THEN res.tag = "null"
        ELSE /\ res.tag \in {"number", "string"}
             /\ MonthValue(res) \in 1..12
             /\ \A m \in 1..12 : RecordsInMonth(txs, MonthValue(res)) >= RecordsInMonth(txs, m)

\* C2 as stated: when months tie for the highest count, findMostTransactionsMonth
\* returns the tied month that is encountered first while scanning the collection.
C2_TieFirstEncountered ==
    op = "findMostTransactionsMonth" =>
        LET tied == TiedMonths(txs)
            firstAt(m) == CHOOSE i \in DOMAIN txs :
                              /\ KeyedMonth(txs[i]) = m
                              /\ \A j \in 1..(i - 1) : KeyedMonth(txs[j]) # m
            winner == CHOOSE m \in tied : \A n \in tied : firstAt(m) <= firstAt(n)
        IN  Cardinality(tied) >= 2 => MonthValue(res) = winner

\* C2 amended: when months tie for the highest count, findMostTransactionsMonth
\* returns the key of the numerically greatest tied month.
C2_TieGreatestMonth ==
    op = "findMostTransactionsMonth" =>
        LET tied == TiedMonths(txs)
        IN  Cardinality(tied) >= 2 =>
                /\ res.tag = "string"
                /\ res.val = ToString(CHOOSE m \in tied : \A n \in tied : n <= m)

\* a tie of months 2 and 10 where month 2 is encountered first and the key
\* of month 10 was returned
C2_Witness ==
    /\ op = "findMostTransactionsMonth"
    /\ Len(txs) = 2
    /\ TiedMonths(txs) = {2, 10}
    /\ KeyedMonth(txs[1]) = 2
    /\ res = JsString(ToString(10))

\* C3 as stated: on the sample dataset month 2 holds two records (ids 3 and 4),
\* every other month that occurs holds one, and findMostTransactionsMonth returns 2.
C3_SampleMonthCounts ==
    (txs = transactions /\ op = "findMostTransactionsMonth") =>
        /\ RecordsInMonth(txs, 2) = 2
        /\ {CalendarMonth(txs[3]), CalendarMonth(txs[4])} = {2}
        /\ \A m \in (1..12) \ {2} : RecordsInMonth(txs, m) <= 1
        /\ MonthValue(res) = 2

\* C3 amended: on the sample dataset the months are 1,1,2,2,3, so months 1 and 2
\* both hold two records and month 3 one, and findMostTransactionsMonth returns
\* the key "2".
C3_SampleMonthTie ==
    (txs = transactions /\ op = "findMostTransactionsMonth") =>
        /\ [i \in DOMAIN txs |-> CalendarMonth(txs[i])] = <<1, 1, 2, 2, 3>>
        /\ RecordsInMonth(txs, 1) = 2
        /\ RecordsInMonth(txs, 2) = 2
        /\ RecordsInMonth(txs, 3) = 1
        /\ res = JsString(ToString(2))

\* findMostTransactionsMonth has run on the sample dataset where the local
\* months are the calendar months
C3_Witness ==
    /\ txs = transactions
    /\ op = "findMostTransactionsMonth"
    /\ tz = "east"
    /\ res.tag = "string"

\* C4: the results on the sample dataset: total 580, debit total 430, average
\* 116, dominant type debit, SuperMart's records are ids 1 and 2, the records
\* of 2019-01-01..2019-01-31 are ids 1 and 2, and the total of 2019-01 is 250.
C4_SampleResults ==
    txs = transactions =>
        /\ op = "calculateTotalAmount" => res = JsNumber(580)
        /\ op = "calculateTotalDebitAmount" => res = JsNumber(430)
        /\ op = "calculateAverageTransactionAmount" => res = JsNumber(116)
        /\ op = "mostTransactionTypes" => res = JsString("debit")
        /\ (op = "getTransactionsByMerchant" /\ args = <<"SuperMart">>) =>
               Ids(res.val) = <<"1", "2">>
        /\ (op = "getTransactionsInDateRange"
                /\ args = <<IsoDate(2019, 1, 1), IsoDate(2019, 1, 31)>>) =>
               Ids(res.val) = <<"1", "2">>
        /\ (op = "calculateTotalAmountByDate"
                /\ args = <<JsNumber(2019), JsNumber(1), JsUndefined>>) =>
               res = JsNumber(250)

\* C5: findTransactionById returns the first record of the collection whose
\* transaction_id is the id, and undefined when no record has it.
C5_FindById ==
    op = "findTransactionById" =>
        LET hits == {i \in DOMAIN txs : txs[i].transaction_id = args[1]}
        IN  IF hits = {} THEN res.tag = "undefined"
            ELSE /\ res.tag = "object"
                 /\ res.val.transaction_id = args[1]
                 /\ res.val = txs[KthIndex(hits, 1)]

\* the id occurs twice, on different records, and the first was returned
C5_Witness ==
    /\ op = "findTransactionById"
    /\ Len(txs) = 3
    /\ txs[1].transaction_id # args[1]
    /\ txs[2].transaction_id = args[1]
    /\ txs[3].transaction_id = args[1]
    /\ txs[2] # txs[3]
    /\ res.tag = "object"
    /\ res.val = txs[2]

\* C6: every record getTransactionByType returns has the type, the returned
\* records are the matching records in their order in the collection, and when
\* every record is debit or credit the debit and the credit results together
\* have as many records as the collection.
C6_ByType ==
    /\ op = "getTransactionByType" =>
           /\ \A k \in DOMAIN res.val : res.val[k].transaction_type = args[1]
           /\ res.val = Selection(txs, {i \in DOMAIN txs : txs[i].transaction_type = args[1]})
    /\ (op = "getTransactionByType" /\ args[1] \in {"debit", "credit"}
            /\ \A i \in DOMAIN txs : txs[i].transaction_type \in {"debit", "credit"}) =>
           Len(res.val)
               + Len(getTransactionByType(txs, IF args[1] = "debit" THEN "credit" ELSE "debit").val)
               = Len(txs)

\* two different debit records were returned around a credit record left out
C6_Witness ==
    /\ op = "getTransactionByType"
    /\ args = <<"debit">>
    /\ Len(txs) = 3
    /\ txs[2].transaction_type = "credit"
    /\ txs[1] # txs[3]
    /\ res.val = <<txs[1], txs[3]>>

\* C7: the total of the debit records is at most the total of all records.
C7_DebitAtMostTotal ==
    /\ op = "calculateTotalDebitAmount" => res.val <= calculateTotalAmount(txs).val
    /\ op = "calculateTotalAmount" => calculateTotalDebitAmount(txs).val <= res.val

\* a debit total that is positive and smaller than the total
C7_Witness ==
    /\ op = "calculateTotalDebitAmount"
    /\ res.val > 0
    /\ res.val < calculateTotalAmount(txs).val

\* C8: getTransactionsInDateRange returns the records dated from startDate to
\* endDate, both included, in their order in the collection; nothing when
\* startDate is after endDate; and filtering its result again with the same
\* bounds returns the same result.
C8_DateRange ==
    op = "getTransactionsInDateRange" =>
        /\ res.val = Selection(txs,
               {i \in DOMAIN txs :
                   /\ CalendarLessEq(args[1], txs[i].transaction_date)
                   /\ CalendarLessEq(txs[i].transaction_date, args[2])})
        /\ ~CalendarLessEq(args[1], args[2]) => res.val = <<>>
        /\ getTransactionsInDateRange(res.val, args[1], args[2]) = res

\* a record dated at each bound was kept and a record outside was dropped
C8_Witness ==
    /\ op = "getTransactionsInDateRange"
    /\ Len(txs) = 3
    /\ txs[1].transaction_date = args[2]
    /\ txs[3].transaction_date = args[1]
    /\ args[1] # args[2]
    /\ res.val = <<txs[1], txs[3]>>

\* C9: mostTransactionTypes returns debit when there are more debit than credit
\* records, credit when there are more credit than debit records, and equal
\* when there are as many of each, none of either included.
C9_DominantType ==
    op = "mostTransactionTypes" =>
        LET debits == Cardinality({i \in DOMAIN txs : txs[i].transaction_type = "debit"})
            credits == Cardinality({i \in DOMAIN txs : txs[i].transaction_type = "credit"})
        IN  /\ res.tag = "string"
            /\ res.val \in {"debit", "credit", "equal"}
            /\ res.val = "debit" <=> debits > credits
            /\ res.val = "credit" <=> credits > debits
            /\ res.val = "equal" <=> debits = credits

\* equal was returned for one debit and one credit record
C9_Witness ==
    /\ op = "mostTransactionTypes"
    /\ res.val = "equal"
    /\ \E i, j \in DOMAIN txs :
           txs[i].transaction_type = "debit" /\ txs[j].transaction_type = "credit"

\* C10: no call of a query function changes the collection: its length, its
\* records, their order and their fields stay as they were.
C10_CollectionUnchanged == [][txs' = txs]_vars

\* a call has returned on the whole sample dataset
C10_Witness ==
    /\ op = "getTransactionsByAmountRange"
    /\ txs = transactions
    /\ Len(res.val) > 0

====
